---------------------------- MODULE Spec2Model ----------------------------
(***************************************************************************)
(* Model of scripts/parse_lab_config.py: LabConfigParser and main().       *)
(*                                                                         *)
(* The input file is a sequence of lines.  A line is a record              *)
(*   [kind, key, val, val2]                                                *)
(*   kind = "delim" : the text  openshift-cnv.osp-on-ocp-cnv.dev-<key>     *)
(*   kind = "field" : a line on which the labelled pattern <key> matches,  *)
(*                    capturing val (and val2 for the ssh pattern)         *)
(*   kind = "data"  : the section header "Data" followed by the embedded   *)
(*                    fragment whose text is <key>                         *)
(*   kind = "noise" : a line on which no pattern matches                   *)
(* Python dicts are functions from key strings to values, Python strings   *)
(* are TLA+ strings.                                                       *)
(***************************************************************************)
EXTENDS Integers, Sequences, FiniteSets, TLC

\* ------------------------------------------------------------------ bounds
MaxLines == 4
MaxFieldLines == 2

\* --------------------------------------------------------------- vocabulary
RootKey == "openshift-cnv.osp-on-ocp-cnv.dev"
ServicePrefix == "openshift-cnv.osp-on-ocp-cnv.dev-"

WordChars ==
  { "a","b","c","d","e","f","g","h","i","j","k","l","m","n","o","p","q","r",
    "s","t","u","v","w","x","y","z","0","1","2","3","4","5","6","7","8","9",
    "_","A","B","C","D","E","F","G","H","I","J","K","L","M","N","O","P","Q",
    "R","S","T","U","V","W","X","Y","Z" }

Whitespace == { " ", "\t", "\n", "\r", "\f" }

\* the keys written by _extract_basic_info, one entry per regex; the ssh
\* regex has two groups and writes bastion_hostname and bastion_port
BasicPatterns ==
  { "lab_ui_url", "openshift_console_url", "openshift_api_url",
    "openshift_admin_password", "ssh", "bastion_password" }

AllocPatterns ==
  { "allocation_name", "cluster_name", "network_subnet", "network_cidr" }

ip_patterns ==
  << "external_ip_worker_1", "external_ip_worker_2", "external_ip_worker_3",
     "external_ip_bastion", "public_net_start", "public_net_end",
     "conversion_host_ip" >>

IpKeys == { ip_patterns[n] : n \in 1..Len(ip_patterns) }

BasicKeys == (BasicPatterns \ {"ssh"}) \cup {"bastion_hostname", "bastion_port"}

EmptyDict == [k \in {} |-> ""]

\* ------------------------------------------------------------ Python values
PyNone == [t |-> "none", s |-> "", l |-> << >>, m |-> EmptyDict]
PyStr(x) == [t |-> "str", s |-> x, l |-> << >>, m |-> EmptyDict]
PyList(x) == [t |-> "list", s |-> "", l |-> x, m |-> EmptyDict]
PyDict(x) == [t |-> "dict", s |-> "", l |-> << >>, m |-> x]

\* bool(x) of a Python value
truthy(x) ==
  CASE x.t = "none" -> FALSE
    [] x.t = "str" -> x.s # ""
    [] x.t = "list" -> x.l # << >>
    [] x.t = "dict" -> DOMAIN x.m # {}

\* d.get(k, default)
get_na(d, k, default) == IF k \in DOMAIN d THEN d[k] ELSE "N/A"

get(d, k, default) == IF k \in DOMAIN d THEN d[k] ELSE default

\* dict.update(other) for a mapping other: keys of other win
dict_update_keep(d, other) ==
  [k \in DOMAIN d \cup DOMAIN other |-> IF k \in DOMAIN d THEN d[k] ELSE other[k]]

dict_update(d, other) ==
  [k \in DOMAIN d \cup DOMAIN other |-> IF k \in DOMAIN other THEN other[k] ELSE d[k]]

\* dict.update(x) for an arbitrary Python value x: a mapping is merged; any
\* other value is iterated and every element must be a sequence of length 2
\* (a str iterates over its characters, each of length 1)
update_raises(x) ==
  CASE x.t = "dict" -> FALSE
    [] x.t = "none" -> TRUE
    [] x.t = "str" -> x.s # ""
    [] x.t = "list" -> \E n \in 1..Len(x.l) : Len(x.l[n]) # 2

update_pairs(x) ==
  IF x.t = "dict" THEN x.m
  ELSE [k \in { SubSeq(x.l[n], 1, 1) : n \in 1..Len(x.l) } |->
          LET last == CHOOSE n \in 1..Len(x.l) :
                        /\ SubSeq(x.l[n], 1, 1) = k
                        /\ \A n2 \in 1..Len(x.l) : SubSeq(x.l[n2], 1, 1) = k => n2 <= n
          IN SubSeq(x.l[last], 2, 2)]


\* ------------------------------------------------------------------- input
Line(kind, key, val, val2) == [kind |-> kind, key |-> key, val |-> val, val2 |-> val2]

Delim(suffix) == Line("delim", suffix, "", "")
Noise == Line("noise", "", "", "")
Data(fragment) == Line("data", fragment, "", "")

\* the text of a delimiter line
LineText(line) == ServicePrefix \o line.key

\* embedded fragments: the text that follows the "Data" header
FragMalformed == "openshift-cnv.osp-on-ocp-cnv.dev:\n  a: 1\n b: 2"
FragScalarDoc == "openshift-cnv.osp-on-ocp-cnv.dev:foo"
FragNoRoot == "openshift-cnv.osp-on-ocp-cnv.dev:x: y"
FragNull == "openshift-cnv.osp-on-ocp-cnv.dev:"
FragStr == "openshift-cnv.osp-on-ocp-cnv.dev: hello"
FragList == "openshift-cnv.osp-on-ocp-cnv.dev:\n  - a\n  - b"
FragPairList == "openshift-cnv.osp-on-ocp-cnv.dev:\n  - ab\n  - cd"
FragEmptyMap == "openshift-cnv.osp-on-ocp-cnv.dev: {}"
FragExtra == "openshift-cnv.osp-on-ocp-cnv.dev:\n  guid: abc123\n  cloud: cnv"
FragOverride ==
  "openshift-cnv.osp-on-ocp-cnv.dev:\n  bastion_port: '9999'\n  external_ip_worker_1: 9.9.9.9"
FragIdent == "openshift-cnv.osp-on-ocp-cnv.dev:\n  service_name: dup\n  lab_guid: dup"

Fragments ==
  { FragMalformed, FragScalarDoc, FragNoRoot, FragNull, FragStr, FragList,
    FragPairList, FragEmptyMap, FragExtra, FragOverride, FragIdent }

Suffixes == { "abc123", "xyz_789" }

\* two captured values per pattern, so that a block can hold two different
\* matches of one pattern
FieldValues(pattern) ==
  CASE pattern = "lab_ui_url" -> { "https://ui.a.example.com", "https://ui.b.example.com" }
    [] pattern = "openshift_console_url" ->
         { "https://console.a.example.com", "https://console.b.example.com" }
    [] pattern = "openshift_api_url" ->
         { "https://api.a.example.com:6443", "https://api.b.example.com:6443" }
    [] pattern = "openshift_admin_password" -> { "Secr3t!", "Adm1n" }
    [] pattern = "bastion_password" -> { "pw1", "pw2" }
    [] pattern = "ssh" -> { "bastion.example.com", "bastion2.example.com" }
    [] pattern = "allocation_name" -> { "cluster-abc123", "cluster-xyz_789" }
    [] pattern = "cluster_name" -> { "ocpv05", "ocpv06" }
    [] pattern = "network_subnet" -> { "10.0.0.0/24", "10.1.0.0/24" }
    [] pattern = "network_cidr" -> { "192.168.0.0/16", "172.16.0.0/12" }
    [] OTHER -> { "10.0.0.5", "10.0.0.1" }

Port(host) == IF host = "bastion.example.com" THEN "2222" ELSE "22"

Field(pattern, val) ==
  Line("field", pattern, val, IF pattern = "ssh" THEN Port(val) ELSE "")

Patterns == BasicPatterns \cup AllocPatterns \cup IpKeys

FieldAlphabet == UNION { { Field(p, v) : v \in FieldValues(p) } : p \in Patterns }

BlockAlphabet ==
  { Delim(s) : s \in Suffixes } \cup
  { Noise, Field("ssh", "bastion.example.com") } \cup
  { Data(f) : f \in { FragMalformed, FragStr, FragIdent, FragExtra } }

BlockLineAlphabet == FieldAlphabet \cup { Data(f) : f \in Fragments } \cup { Noise }

SeqsUpTo(S, n) == UNION { [1..m -> S] : m \in 0..n }

\* inputs with several blocks over a small alphabet, and inputs with one block
\* over every pattern and every fragment
Texts ==
  SeqsUpTo(BlockAlphabet, MaxLines) \cup
  { << Delim("abc123") >> \o t : t \in SeqsUpTo(BlockLineAlphabet, MaxFieldLines) }

\* ------------------------------------------------------- regular expressions
\* re.split(r'^(openshift-cnv\.osp-on-ocp-cnv\.dev-\w+)', content, re.MULTILINE):
\* the text before the first delimiter, then for every delimiter the captured
\* delimiter text and the text up to the next delimiter
RECURSIVE re_split(_)
re_split(content) ==
  LET hits == { n \in 1..Len(content) : content[n].kind = "delim" }
  IN IF hits = {} THEN << content >>
     ELSE LET n == CHOOSE h \in hits : \A h2 \in hits : h <= h2
          IN << SubSeq(content, 1, n - 1), LineText(content[n]) >>
               \o re_split(SubSeq(content, n + 1, Len(content)))

\* re.search of one labelled pattern in a block: the first matching line, 0 if none
re_search(pattern, content) ==
  LET hits == { n \in 1..Len(content) :
                  content[n].kind = "field" /\ content[n].key = pattern }
  IN IF hits = {} THEN 0 ELSE CHOOSE h \in hits : \A h2 \in hits : h <= h2

\* re.search of the Data section: the first "Data" header followed by a line
\* that starts with the root key
re_search_data(content) ==
  LET hits == { n \in 1..Len(content) : content[n].kind = "data" }
  IN IF hits = {} THEN 0 ELSE CHOOSE h \in hits : \A h2 \in hits : h <= h2

\* str.strip()
RECURSIVE strip(_)
strip(s) ==
  IF s = "" THEN s
  ELSE IF SubSeq(s, 1, 1) \in Whitespace THEN strip(SubSeq(s, 2, Len(s)))
  ELSE IF SubSeq(s, Len(s), Len(s)) \in Whitespace THEN strip(SubSeq(s, 1, Len(s) - 1))
  ELSE s

\* ---------------------------------------------------------- LabConfigParser
\* re.search(r'-(\w+)$', service_name): group 1 of the leftmost match, '' if none
_extract_guid(service_name) ==
  LET n == Len(service_name)
      hits == { p \in 1..(n - 1) :
                  /\ SubSeq(service_name, p, p) = "-"
                  /\ \A q \in (p + 1)..n : SubSeq(service_name, q, q) \in WordChars }
  IN IF hits = {} THEN ""
     ELSE LET p == CHOOSE h \in hits : \A h2 \in hits : h <= h2
          IN SubSeq(service_name, p + 1, n)

_extract_basic_info(content) ==
  LET single == { p \in BasicPatterns \ {"ssh"} : re_search(p, content) # 0 }
      ssh_match == re_search("ssh", content)
      keys == single \cup (IF ssh_match # 0 THEN {"bastion_hostname", "bastion_port"} ELSE {})
  IN [k \in keys |->
        CASE k = "bastion_hostname" -> content[ssh_match].val
          [] k = "bastion_port" -> content[ssh_match].val2
          [] OTHER -> content[re_search(k, content)].val]

_extract_ip_allocation_defaults(content) ==
  [k \in AllocPatterns \cup IpKeys |->
     IF re_search(k, content) # 0 THEN content[re_search(k, content)].val ELSE ""]

_extract_ip_allocation(content) ==
  LET keys == { p \in AllocPatterns \cup IpKeys : re_search(p, content) # 0 }
  IN [k \in keys |-> content[re_search(k, content)].val]

\* yaml.safe_load of a fragment text: raised is a yaml.YAMLError; otherwise
\* isdict says whether the document is a mapping and doc is that mapping
yaml_safe_load(text) ==
  LET Doc(d) == [raised |-> FALSE, isdict |-> TRUE, doc |-> d]
      Root(v) == Doc([k \in {RootKey} |-> v])
  IN CASE text = FragMalformed -> [raised |-> TRUE, isdict |-> FALSE, doc |-> EmptyDict]
       [] text = FragScalarDoc -> [raised |-> FALSE, isdict |-> FALSE, doc |-> EmptyDict]
       [] text = FragNoRoot -> Doc([k \in {"openshift-cnv.osp-on-ocp-cnv.dev:x"} |-> PyStr("y")])
       [] text = FragNull -> Root(PyNone)
       [] text = FragStr -> Root(PyStr("hello"))
       [] text = FragList -> Root(PyList(<< "a", "b" >>))
       [] text = FragPairList -> Root(PyList(<< "ab", "cd" >>))
       [] text = FragEmptyMap -> Root(PyDict(EmptyDict))
       [] text = FragExtra ->
            Root(PyDict([k \in {"guid", "cloud"} |-> IF k = "guid" THEN "abc123" ELSE "cnv"]))
       [] text = FragOverride ->
            Root(PyDict([k \in {"bastion_port", "external_ip_worker_1"} |->
                           IF k = "bastion_port" THEN "9999" ELSE "9.9.9.9"]))
       [] text = FragIdent -> Root(PyDict([k \in {"service_name", "lab_guid"} |-> "dup"]))

\* value: the value returned; warned: the warning was printed; raised: an
\* exception left the function (never: yaml.YAMLError is caught)
_extract_yaml_data_uncaught(content) ==
  LET yaml_match == re_search_data(content)
      none == [value |-> PyDict(EmptyDict), warned |-> FALSE, raised |-> FALSE]
  IN IF yaml_match = 0 THEN none
     ELSE LET yaml_data == yaml_safe_load(content[yaml_match].key)
          IN IF yaml_data.raised THEN [none EXCEPT !.raised = TRUE]
             ELSE IF yaml_data.isdict /\ RootKey \in DOMAIN yaml_data.doc
                    THEN [none EXCEPT !.value = yaml_data.doc[RootKey]]
                    ELSE none

_extract_yaml_data(content) ==
  LET yaml_match == re_search_data(content)
      none == [value |-> PyDict(EmptyDict), warned |-> FALSE, raised |-> FALSE]
  IN IF yaml_match = 0 THEN none
     ELSE LET yaml_data == yaml_safe_load(content[yaml_match].key)
          IN IF yaml_data.raised THEN [none EXCEPT !.warned = TRUE]
             ELSE IF yaml_data.isdict /\ RootKey \in DOMAIN yaml_data.doc
                    THEN [none EXCEPT !.value = yaml_data.doc[RootKey]]
                    ELSE none

\* config = { 'service_name': ..., 'lab_guid': ... }
initial_config_prefix(service_name) ==
  [k \in {"service_name", "lab_guid"} |->
     IF k = "service_name" THEN SubSeq(service_name, 1, Len(RootKey))
     ELSE _extract_guid(service_name)]

initial_config(service_name) ==
  [k \in {"service_name", "lab_guid"} |->
     IF k = "service_name" THEN service_name ELSE _extract_guid(service_name)]

\* error: the exception that leaves the function ("" if it returns): the
\* one config.update(yaml_data) raises on a value that is not a mapping;
\* config: the record returned; warned: the YAML warning was printed
_parse_service_block(service_name, content) ==
  LET config0 == initial_config(service_name)
      config1 == dict_update(config0, _extract_basic_info(content))
      config2 == dict_update(config1, _extract_ip_allocation(content))
      y == _extract_yaml_data(content)
      result == [error |-> "", config |-> config2, warned |-> y.warned]
  IN IF y.raised THEN [result EXCEPT !.error = "YAMLError"]
     ELSE IF truthy(y.value)
       THEN IF update_raises(y.value)
              THEN [result EXCEPT !.error = "ValueError"]
              ELSE [result EXCEPT !.config = dict_update(config2, update_pairs(y.value))]
       ELSE result

\* the keys generate_inventory_config reads from the record, by variable name
VarSource_swapped ==
  [ lab_guid |-> "lab_guid",
    bastion_hostname |-> "bastion_hostname",
    bastion_port |-> "bastion_port",
    bastion_password |-> "bastion_password",
    ocp_console_url |-> "openshift_console_url",
    ocp_admin_password |-> "openshift_admin_password",
    rhoso_external_ip_worker_1 |-> "external_ip_worker_1",
    rhoso_external_ip_worker_2 |-> "external_ip_worker_2",
    rhoso_external_ip_worker_3 |-> "external_ip_worker_3",
    rhoso_external_ip_bastion |-> "external_ip_bastion",
    public_net_start |-> "public_net_start",
    public_net_end |-> "public_net_end",
    conversion_host_ip |-> "conversion_host_ip",
    network_subnet |-> "network_subnet",
    network_cidr |-> "network_subnet",
    allocation_name |-> "allocation_name",
    cluster_name |-> "cluster_name" ]

VarSource ==
  [ lab_guid |-> "lab_guid",
    bastion_hostname |-> "bastion_hostname",
    bastion_port |-> "bastion_port",
    bastion_password |-> "bastion_password",
    ocp_console_url |-> "openshift_console_url",
    ocp_admin_password |-> "openshift_admin_password",
    rhoso_external_ip_worker_1 |-> "external_ip_worker_1",
    rhoso_external_ip_worker_2 |-> "external_ip_worker_2",
    rhoso_external_ip_worker_3 |-> "external_ip_worker_3",
    rhoso_external_ip_bastion |-> "external_ip_bastion",
    public_net_start |-> "public_net_start",
    public_net_end |-> "public_net_end",
    conversion_host_ip |-> "conversion_host_ip",
    network_subnet |-> "network_subnet",
    network_cidr |-> "network_cidr",
    allocation_name |-> "allocation_name",
    cluster_name |-> "cluster_name" ]

FixedVars ==
  [ bastion_user |-> "lab-user",
    registry_username |-> "",
    registry_password |-> "",
    rhc_username |-> "",
    rhc_password |-> "",
    nfs_server_hostname |-> "nfsserver",
    compute_hostname |-> "compute01" ]

KeyFile == "/home/{{ bastion_user }}/.ssh/{{ lab_guid }}key.pem"

generate_inventory_config(lab_config) ==
  [ all |->
      [ vars |-> [v \in DOMAIN VarSource \cup DOMAIN FixedVars |->
                    IF v \in DOMAIN FixedVars THEN FixedVars[v]
                    ELSE get(lab_config, VarSource[v], "")] ],
    bastion |->
      [ hosts |-> [h \in {"bastion-jumphost"} |->
          [ ansible_host |-> "{{ bastion_hostname }}",
            ansible_user |-> "{{ bastion_user }}",
            ansible_port |-> "{{ bastion_port }}",
            ansible_ssh_pass |-> "{{ bastion_password }}" ]] ],
    nfsserver |->
      [ hosts |-> [h \in {"nfs-server"} |->
          [ ansible_host |-> "{{ nfs_server_hostname }}",
            ansible_user |-> "cloud-user",
            ansible_ssh_private_key_file |-> KeyFile,
            delegate_to |-> "bastion-jumphost" ]] ],
    compute_nodes |->
      [ hosts |-> [h \in {"compute01"} |->
          [ ansible_host |-> "{{ compute_hostname }}",
            ansible_user |-> "cloud-user",
            ansible_ssh_private_key_file |-> KeyFile,
            delegate_to |-> "bastion-jumphost" ]] ] ]

\* f"hosts-cluster-{lab_guid}.yml"
filename_cluster(lab_config) ==
  "hosts-cluster-" \o get(lab_config, "cluster_name", "unknown") \o ".yml"

filename(lab_config) == "hosts-cluster-" \o get(lab_config, "lab_guid", "unknown") \o ".yml"

\* ------------------------------------------------------------------- state
VARIABLES
  argc,             \* len(sys.argv)
  file_exists,      \* whether the configuration file exists
  content,          \* the lines of the configuration file
  pc,               \* position in main()
  file_read,        \* read_text() was called
  service_blocks,   \* _extract_lab_configs: the result of re.split
  i,                \* _extract_lab_configs: the loop index (0-based)
  local_labs,       \* _extract_lab_configs: the local list labs
  labs,             \* self.labs
  warnings,         \* number of "Warning: Failed to parse YAML data" lines printed
  error,            \* the exception that reached main's handler, "" if none
  dir_created,      \* output_path.mkdir was called
  files,            \* the output directory: file name -> inventory written
  inventory_files,  \* save_inventory_files: the list of paths
  j,                \* save_inventory_files: number of labs already saved
  summary_written,  \* lab_summary.json was written
  summary,          \* the list serialised into lab_summary.json
  exit_code         \* -1 while running, 0 on normal return, 1 after sys.exit(1)

vars ==
  << argc, file_exists, content, pc, file_read, service_blocks, i, local_labs, labs,
     warnings, error, dir_created, files, inventory_files, j, summary_written,
     summary, exit_code >>

input == << argc, file_exists, content >>
extract_locals == << service_blocks, i, local_labs >>
outputs == << dir_created, files, inventory_files, j, summary_written, summary >>

\* LabConfigParser.__init__ and the state before main() runs
Init ==
  /\ argc \in {1, 2, 3}
  /\ file_exists \in BOOLEAN
  /\ content \in Texts
  /\ ~file_exists => content = << >>
  /\ argc # 2 => (content = << >> /\ ~file_exists)
  /\ pc = "main"
  /\ file_read = FALSE
  /\ service_blocks = << >>
  /\ i = 0
  /\ local_labs = << >>
  /\ labs = << >>
  /\ warnings = 0
  /\ error = ""
  /\ dir_created = FALSE
  /\ files = EmptyDict
  /\ inventory_files = << >>
  /\ j = 0
  /\ summary_written = FALSE
  /\ summary = << >>
  /\ exit_code = -1

\* main: wrong argument count, usage message and sys.exit(1)
main_usage ==
  /\ pc = "main"
  /\ argc # 2
  /\ pc' = "done"
  /\ exit_code' = 1
  /\ UNCHANGED << input, file_read, extract_locals, labs, warnings, error, outputs >>

\* parse(): the existence check, read_text and the entry of _extract_lab_configs
parse_unchecked ==
  /\ pc = "main"
  /\ argc = 2
  /\ file_read' = TRUE
  /\ service_blocks' = re_split(content)
  /\ i' = 1
  /\ local_labs' = << >>
  /\ pc' = "extract"
  /\ UNCHANGED << input, error, labs, warnings, outputs, exit_code >>

parse ==
  /\ pc = "main"
  /\ argc = 2
  /\ IF ~file_exists
       THEN /\ pc' = "except"
            /\ error' = "FileNotFoundError"
            /\ UNCHANGED << file_read, extract_locals >>
       ELSE /\ file_read' = TRUE
            /\ service_blocks' = re_split(content)
            /\ i' = 1
            /\ local_labs' = << >>
            /\ pc' = "extract"
            /\ UNCHANGED error
  /\ UNCHANGED << input, labs, warnings, outputs, exit_code >>

\* _extract_lab_configs: one iteration of  for i in range(1, len(service_blocks), 2)
\* (service_blocks[i] of the code is service_blocks[i + 1] here)
extract_block ==
  /\ pc = "extract"
  /\ i < Len(service_blocks)
  /\ IF i + 1 < Len(service_blocks)
       THEN LET service_name == strip(service_blocks[i + 1])
                service_content == service_blocks[i + 2]
                r == _parse_service_block(service_name, service_content)
            IN /\ warnings' = warnings + (IF r.warned THEN 1 ELSE 0)
               /\ IF r.error # ""
                    THEN /\ pc' = "except"
                         /\ error' = r.error
                         /\ UNCHANGED << i, local_labs >>
                    ELSE /\ local_labs' = (IF DOMAIN r.config # {}
                                             THEN Append(local_labs, r.config)
                                             ELSE local_labs)
                         /\ i' = i + 2
                         /\ UNCHANGED << pc, error >>
       ELSE /\ i' = i + 2
            /\ UNCHANGED << pc, error, local_labs, warnings >>
  /\ UNCHANGED << input, file_read, service_blocks, labs, outputs, exit_code >>

\* _extract_lab_configs returns, parse() stores the list in self.labs
extract_return ==
  /\ pc = "extract"
  /\ i >= Len(service_blocks)
  /\ labs' = local_labs
  /\ pc' = "parsed"
  /\ UNCHANGED << input, file_read, extract_locals, warnings, error, outputs, exit_code >>

\* save_inventory_files: mkdir(exist_ok=True) and the empty result list
save_begin ==
  /\ pc = "parsed"
  /\ dir_created' = TRUE
  /\ inventory_files' = << >>
  /\ j' = 0
  /\ pc' = "saving"
  /\ UNCHANGED << input, file_read, extract_locals, labs, warnings, error, files,
                  summary_written, summary, exit_code >>

\* save_inventory_files: one iteration of  for lab_config in self.labs
save_lab ==
  /\ pc = "saving"
  /\ j < Len(labs)
  /\ LET lab_config == labs[j + 1]
         name == filename(lab_config)
         inventory == generate_inventory_config(lab_config)
     IN /\ files' = [f \in DOMAIN files \cup {name} |->
                       IF f = name THEN inventory ELSE files[f]]
        /\ inventory_files' = Append(inventory_files, name)
  /\ j' = j + 1
  /\ UNCHANGED << input, pc, file_read, extract_locals, labs, warnings, error,
                  dir_created, summary_written, summary, exit_code >>

\* save_inventory_files returns; main writes lab_summary.json and returns
main_summary ==
  /\ pc = "saving"
  /\ j >= Len(labs)
  /\ summary_written' = TRUE
  /\ summary' = labs
  /\ exit_code' = 0
  /\ pc' = "done"
  /\ UNCHANGED << input, file_read, extract_locals, labs, warnings, error,
                  dir_created, files, inventory_files, j >>

\* main: except Exception, the error message and sys.exit(1)
main_except ==
  /\ pc = "except"
  /\ exit_code' = 1
  /\ pc' = "done"
  /\ UNCHANGED << input, file_read, extract_locals, labs, warnings, error, outputs >>

Next ==
  \/ main_usage
  \/ parse
  \/ extract_block
  \/ extract_return
  \/ save_begin
  \/ save_lab
  \/ main_summary
  \/ main_except

Spec == Init /\ [][Next]_vars

\* -------------------------------------------------- what the input contains
\* the delimiter lines of the input, top to bottom
Delimiters == SelectSeq(content, LAMBDA line : line.kind = "delim")

\* record k of local_labs was built from the k-th delimiter and its block
NameOf(k) == service_blocks[2 * k]
BlockOf(k) == service_blocks[2 * k + 1]

\* the block the loop of _extract_lab_configs is about to process
Processing == pc = "extract" /\ i + 1 < Len(service_blocks)
CurName == service_blocks[i + 1]
CurBlock == service_blocks[i + 2]

PatternOf(key) == IF key \in {"bastion_hostname", "bastion_port"} THEN "ssh" ELSE key

Matches(block, key) ==
  \E n \in 1..Len(block) : block[n].kind = "field" /\ block[n].key = PatternOf(key)

FirstMatch(block, key) ==
  block[CHOOSE n \in 1..Len(block) :
          /\ block[n].kind = "field" /\ block[n].key = PatternOf(key)
          /\ \A n2 \in 1..(n - 1) : ~(block[n2].kind = "field" /\ block[n2].key = PatternOf(key))]

OptionalKeys == BasicKeys \cup AllocPatterns \cup IpKeys

\* the record the regular expressions alone give for a block
RegexKeys(block) == {"service_name", "lab_guid"} \cup { key \in OptionalKeys : Matches(block, key) }

RegexVal(name, block, key) ==
  CASE key = "service_name" -> name
    [] key = "lab_guid" -> CHOOSE suffix \in Suffixes : ServicePrefix \o suffix = name
    [] key = "bastion_port" -> FirstMatch(block, key).val2
    [] OTHER -> FirstMatch(block, key).val

RegexRecord(name, block) == [key \in RegexKeys(block) |-> RegexVal(name, block, key)]

\* the embedded fragment of a block: the first Data section
HasFragment(block) == \E n \in 1..Len(block) : block[n].kind = "data"

FragmentOf(block) ==
  block[CHOOSE n \in 1..Len(block) :
          block[n].kind = "data" /\ \A n2 \in 1..(n - 1) : block[n2].kind # "data"].key

FragFails(block) == HasFragment(block) /\ yaml_safe_load(FragmentOf(block)).raised

FragHasRoot(block) ==
  /\ HasFragment(block)
  /\ ~yaml_safe_load(FragmentOf(block)).raised
  /\ yaml_safe_load(FragmentOf(block)).isdict
  /\ RootKey \in DOMAIN yaml_safe_load(FragmentOf(block)).doc

FragRoot(block) == yaml_safe_load(FragmentOf(block)).doc[RootKey]

\* the fragment parses to a mapping under the root key
HasFragMap(block) == FragHasRoot(block) /\ FragRoot(block).t = "dict"
FragMap(block) == FragRoot(block).m

\* the fragment parses, but not to a mapping under the root key
FragNotMapping(block) == HasFragment(block) /\ ~FragFails(block) /\ ~HasFragMap(block)

\* the keys a block's fragment puts into the record
FragKeys(block) ==
  IF ~FragHasRoot(block) THEN {}
  ELSE IF FragRoot(block).t = "dict" THEN DOMAIN FragRoot(block).m
  ELSE IF FragRoot(block).t = "list"
          /\ \A n \in 1..Len(FragRoot(block).l) : Len(FragRoot(block).l[n]) = 2
    THEN { SubSeq(FragRoot(block).l[n], 1, 1) : n \in 1..Len(FragRoot(block).l) }
  ELSE {}

Records == 1..Len(local_labs)

\* ------------------------------------------------------------------ claims
\* C1: once the file is read and _extract_lab_configs is over, it has returned
\* (no exception) exactly one record per delimiter line, and record k carries
\* the text of the k-th delimiter line as service_name.
C1_OneRecordPerDelimiter ==
  (file_read /\ pc # "extract") =>
    /\ error = ""
    /\ Len(labs) = Len(Delimiters)
    /\ \A k \in 1..Len(labs) : labs[k]["service_name"] = LineText(Delimiters[k])

\* C2 as stated: every record returned by parse() has service_name and no two
\* records have the same service_name.
C2_ServiceNameUnique ==
  \A k \in 1..Len(labs) :
    /\ "service_name" \in DOMAIN labs[k]
    /\ \A l \in 1..Len(labs) : l # k => labs[l]["service_name"] # labs[k]["service_name"]

\* C2 amended: every record has service_name, and two records have the same
\* service_name only if their delimiter lines are the same text or the
\* fragment of one of them supplies a service_name key.
C2_ServiceNameUniqueUnlessRepeated ==
  \A k \in 1..Len(labs) :
    /\ "service_name" \in DOMAIN labs[k]
    /\ \A l \in 1..Len(labs) :
         (l # k /\ labs[l]["service_name"] = labs[k]["service_name"]) =>
           \/ NameOf(k) = NameOf(l)
           \/ "service_name" \in FragKeys(BlockOf(k))
           \/ "service_name" \in FragKeys(BlockOf(l))

C2_Witness ==
  /\ pc = "parsed"
  /\ Len(labs) = 2
  /\ NameOf(1) # NameOf(2)
  /\ labs[1]["service_name"] # labs[2]["service_name"]

Finished == pc = "done" /\ exit_code = 0

ExpectedFile(lab_config) == "hosts-cluster-" \o lab_config["lab_guid"] \o ".yml"

\* C3 as stated: after a complete run over N records there are N distinct
\* inventory files, record k's file being hosts-cluster-<lab_guid of k>.yml.
C3_OneFilePerRecord ==
  Finished =>
    /\ Len(inventory_files) = Len(labs)
    /\ \A k \in 1..Len(labs) : inventory_files[k] = ExpectedFile(labs[k])
    /\ Cardinality(DOMAIN files) = Len(labs)

\* C3 amended: a complete run over N records makes N writes, the k-th to
\* hosts-cluster-<lab_guid of k>.yml; there are as many distinct files as
\* distinct lab_guid values (so N when the lab_guids differ pairwise), and a
\* file holds the inventory of the last record with its lab_guid.
C3_OneFilePerGuid ==
  Finished =>
    /\ Len(inventory_files) = Len(labs)
    /\ \A k \in 1..Len(labs) : inventory_files[k] = ExpectedFile(labs[k])
    /\ DOMAIN files = { ExpectedFile(labs[k]) : k \in 1..Len(labs) }
    /\ Cardinality(DOMAIN files) = Cardinality({ labs[k]["lab_guid"] : k \in 1..Len(labs) })
    /\ \A k \in 1..Len(labs) :
         (\A l \in (k + 1)..Len(labs) : labs[l]["lab_guid"] # labs[k]["lab_guid"]) =>
           /\ files[ExpectedFile(labs[k])].all.vars["lab_guid"] = labs[k]["lab_guid"]
           /\ files[ExpectedFile(labs[k])].all.vars["bastion_hostname"] =
                (IF "bastion_hostname" \in DOMAIN labs[k] THEN labs[k]["bastion_hostname"] ELSE "")

C3_Witness ==
  /\ Finished
  /\ Len(labs) = 2
  /\ labs[1]["lab_guid"] # labs[2]["lab_guid"]
  /\ Cardinality(DOMAIN files) = 2

\* C4: when a block's fragment parses to a mapping under the root key, every
\* key of that mapping is in the record with the fragment's value (also
\* service_name and lab_guid), and every other key of the record has the
\* value the regular expressions extracted.
C4_FragmentOverrides ==
  \A k \in Records :
    HasFragMap(BlockOf(k)) =>
      /\ \A key \in DOMAIN FragMap(BlockOf(k)) :
           key \in DOMAIN local_labs[k] /\ local_labs[k][key] = FragMap(BlockOf(k))[key]
      /\ \A key \in DOMAIN local_labs[k] \ DOMAIN FragMap(BlockOf(k)) :
           /\ key \in RegexKeys(BlockOf(k))
           /\ local_labs[k][key] = RegexVal(NameOf(k), BlockOf(k), key)

C4_Witness ==
  \E k \in Records :
    /\ HasFragMap(BlockOf(k))
    /\ "bastion_port" \in DOMAIN FragMap(BlockOf(k))
    /\ Matches(BlockOf(k), "bastion_port")
    /\ FirstMatch(BlockOf(k), "bastion_port").val2 = "2222"
    /\ local_labs[k]["bastion_port"] = "9999"
    /\ local_labs[k]["bastion_hostname"] = "bastion.example.com"

\* C5 as stated: an optional field whose pattern matches nowhere in the block
\* and that the fragment does not supply is absent from the record; lab_guid
\* is in every record; an IP-table field is present exactly when its own
\* pattern matches.
C5_AbsentUnlessMatched ==
  \A k \in Records :
    /\ "lab_guid" \in DOMAIN local_labs[k]
    /\ \A key \in OptionalKeys :
         (~Matches(BlockOf(k), key) /\ key \notin FragKeys(BlockOf(k))) =>
           key \notin DOMAIN local_labs[k]
    /\ \A key \in IpKeys : key \in DOMAIN local_labs[k] <=> Matches(BlockOf(k), key)

\* C5 amended: as stated, except that an IP-table field is present exactly
\* when its own pattern matches or the fragment supplies that key.
C5_AbsentUnlessMatchedOrSupplied ==
  \A k \in Records :
    /\ "lab_guid" \in DOMAIN local_labs[k]
    /\ \A key \in OptionalKeys :
         (~Matches(BlockOf(k), key) /\ key \notin FragKeys(BlockOf(k))) =>
           key \notin DOMAIN local_labs[k]
    /\ \A key \in IpKeys :
         key \in DOMAIN local_labs[k] <=>
           (Matches(BlockOf(k), key) \/ key \in FragKeys(BlockOf(k)))

C5_Witness ==
  \E k \in Records :
    /\ ~HasFragment(BlockOf(k))
    /\ DOMAIN local_labs[k] = {"service_name", "lab_guid", "external_ip_worker_1", "external_ip_bastion"}
    /\ local_labs[k]["external_ip_worker_1"] = "10.0.0.5"
    /\ local_labs[k]["external_ip_bastion"] = "10.0.0.1"

\* C6: processing a block whose fragment fails to parse as YAML appends the
\* record with service_name, lab_guid and the regex-extracted fields only,
\* prints one warning, raises nothing and moves on to the next block.
C6_MalformedFragmentNonFatal ==
  [][ (Processing /\ FragFails(CurBlock)) =>
        /\ pc' = "extract"
        /\ error' = ""
        /\ local_labs' = Append(local_labs, RegexRecord(CurName, CurBlock))
        /\ warnings' = warnings + 1
        /\ i' = i + 2 ]_vars

C6_Witness ==
  /\ Finished
  /\ Len(labs) = 2
  /\ FragFails(BlockOf(1))
  /\ ~HasFragment(BlockOf(2))
  /\ warnings = 1
  /\ DOMAIN labs[1] = {"service_name", "lab_guid", "bastion_hostname", "bastion_port"}
  /\ summary = labs

\* C7: when the input file does not exist nothing is read, no directory,
\* inventory file or summary is written, save_inventory_files is never
\* entered, and the run ends with FileNotFoundError and exit code 1.
C7_MissingFileAborts ==
  (argc = 2 /\ ~file_exists) =>
    /\ ~file_read
    /\ pc \in {"main", "except", "done"}
    /\ ~dir_created
    /\ DOMAIN files = {}
    /\ inventory_files = << >>
    /\ ~summary_written
    /\ pc = "except" => error = "FileNotFoundError"
    /\ pc = "done" => (exit_code = 1 /\ error = "FileNotFoundError")

C7_Witness == argc = 2 /\ ~file_exists /\ pc = "done" /\ exit_code = 1

\* the inventory files on disk: write k is still on disk when no later write
\* went to the same file
Saved == { k \in 1..j : \A l \in (k + 1)..j : inventory_files[l] # inventory_files[k] }
VarsOf(k) == files[inventory_files[k]].all.vars

\* variable v is the deployment-tool name of record key key
NameMatches(v, key) ==
  \/ v = key
  \/ v = "rhoso_" \o key
  \/ Len(key) > 10 /\ SubSeq(key, 1, 10) = "openshift_" /\ v = "ocp_" \o SubSeq(key, 11, Len(key))

Carried(k, key) ==
  \E v \in DOMAIN VarsOf(k) : NameMatches(v, key) /\ VarsOf(k)[v] = labs[k][key]

FixedPart(k) ==
  /\ VarsOf(k)["registry_username"] = "" /\ VarsOf(k)["registry_password"] = ""
  /\ VarsOf(k)["rhc_username"] = "" /\ VarsOf(k)["rhc_password"] = ""
  /\ VarsOf(k)["nfs_server_hostname"] = "nfsserver"
  /\ VarsOf(k)["compute_hostname"] = "compute01"

C10_NonMappingFragmentNonFatal ==
  [][ (Processing /\ FragNotMapping(CurBlock)) =>
        /\ pc' = "extract"
        /\ error' = ""
        /\ local_labs' = Append(local_labs, RegexRecord(CurName, CurBlock))
        /\ i' = i + 2 ]_vars

=============================================================================
